---- MODULE Spec2Model ----
(***************************************************************************)
(* Timestamp authority: verification of an RFC 3161 timestamp response     *)
(* (pkg/verification: VerifyTimestampResponse and its six checks), the     *)
(* verify command's option construction (cmd/timestamp-cli/app/verify.go)  *)
(* and the issuing handler (pkg/api/timestamp.go).                         *)
(*                                                                         *)
(* A Go pointer or slice that may be nil is Nil or Some(v); an error is    *)
(* NoErr or a string naming its kind; a runtime panic of the Go program is *)
(* the outcome "panic".                                                    *)
(***************************************************************************)
EXTENDS Integers, Sequences, FiniteSets, TLC

\* ------------------------------------------------------------------ bounds
MaxNonce == 2
MaxArc == 2
MaxOidLen == 2
MaxArtifactLen == 2
MaxIntermediates == 2
MaxNonceFlagLen == 2
MaxOidFlagLen == 3
MaxCalls == 2

\* ------------------------------------------------------------ plain values
Nil == <<>>
Some(v) == <<v>>
Val(p) == p[1]
NoErr == "nil"

SeqsUpTo(S, n) == UNION {[1..k -> S] : k \in 0..n}

Nonces == 0..MaxNonce

\* asn1.ObjectIdentifier{1, 3, 6, 1, 4, 1, 57264, 2}
DefaultPolicyOID == <<1, 3, 6, 1, 4, 1, 57264, 2>>

Oids == (SeqsUpTo(1..MaxArc, MaxOidLen) \ {<<>>}) \cup {DefaultPolicyOID, <<1, 2, 3>>}

\* ------------------------------------------------------------ certificates
\* x509.Certificate: the fields the verifier reads.  Raw (what Equal compares)
\* determines every field, so two certificates are Equal iff the records are.
ExtKeyUsageTimeStamping == "TimeStamping"
ExtKeyUsageServerAuth == "ServerAuth"

Cert(cn, org, issuer, serial, eku, key, isCA) ==
    [Subject |-> [CommonName |-> cn, Organization |-> org], RawIssuer |-> issuer,
     SerialNumber |-> serial, ExtKeyUsage |-> eku, PublicKey |-> key, IsCA |-> isCA]

\* pkix.Name.String(): the RDN sequence, most specific attribute first.
NameString(name) ==
    IF name.Organization = "" THEN "CN=" \o name.CommonName
    ELSE "CN=" \o name.CommonName \o ",O=" \o name.Organization

\* The authority's chain: root A -> intermediate -> leaf.
LeafCert == Cert("tsa", "sigstore", "intA", 1, <<ExtKeyUsageTimeStamping>>, "k1", FALSE)
IntermediateCert == Cert("intA", "sigstore", "rootA", 7, <<ExtKeyUsageTimeStamping>>, "k7", TRUE)
RootCert(name) == Cert(name, "sigstore", name, 1, <<>>, name, TRUE)

EKULists == {<<ExtKeyUsageTimeStamping>>, <<>>, <<ExtKeyUsageServerAuth>>,
             <<ExtKeyUsageTimeStamping, ExtKeyUsageServerAuth>>}

\* Leaf certificates differing from LeafCert in identity fields.
IdentityCerts ==
    {Cert(cn, org, iss, ser, <<ExtKeyUsageTimeStamping>>, key, FALSE) :
        cn \in {"tsa", "other"}, org \in {"sigstore"}, iss \in {"intA", "rootB"},
        ser \in {1, 2}, key \in {"k1", "k2"}}

\* Leaf / intermediate certificates differing in their extended key usages.
LeafEKUCerts == {[LeafCert EXCEPT !.ExtKeyUsage = e] : e \in EKULists}
IntermediateEKUCerts == {[IntermediateCert EXCEPT !.ExtKeyUsage = e] : e \in EKULists}

\* ------------------------------------------------------------------ hashing
\* crypto.Hash: a digest of HashSize(alg) symbols, each folded over the whole
\* stream (a small stand-in for SHA-1 / SHA-256 / SHA-512).
HashAlgs == {"SHA256", "SHA512"}

HashSize(alg) == CASE alg = "SHA1" -> 1 [] alg = "SHA256" -> 2 [] alg = "SHA512" -> 3

Artifacts == SeqsUpTo(0..1, MaxArtifactLen)

RECURSIVE Absorb(_, _)
Absorb(h, data) ==
    IF data = <<>> THEN h ELSE Absorb((h * 5 + Head(data) + 1) % 7, Tail(data))

Digest(alg, data) == [i \in 1..HashSize(alg) |-> Absorb(i, data)]

\* ------------------------------------------------------- verifier's checks
ErrNotValid == "timestamp response is not valid"
ErrParse == "error parsing response into Timestamp"
ErrParseToken == "error parsing hashed message"
ErrChain == "error while verifying with chain"
ErrNonce == "nonce does not match"
ErrOIDLength == "OID lengths do not match"
ErrOIDContent == "OID content does not match"
ErrEKULeaf == "failed to verify EKU on leaf cert"
ErrEKUIntermediate == "failed to verify EKU on intermediate cert"
ErrLeafCert == "failed to verify leaf cert"
ErrESSCertID == "TSR cert issuer does not match provided TSA cert issuer"
ErrSubject == "leaf cert subject does not match provided subject"
ErrEmbedded == "certificate embedded in the TSR does not match the provided TSA certificate"
ErrReadArtifact == "failed to create hash"
ErrHash == "hashed messages don't match"
Panic == "panic"

\* type VerifyOpts: HashAlgorithm and HashedMessage are never read and are left out.
VerifyOpts(oid, tsaCert, intermediates, roots, nonce, subject) ==
    [Oid |-> oid, TsaCertificate |-> tsaCert, Intermediates |-> intermediates,
     Roots |-> roots, Nonce |-> nonce, Subject |-> subject]

\* bytes.Equal on RawIssuer, big.Int.Cmp on SerialNumber; both messages are the same text.
verifyESSCertID(tsaCert, o) ==
    IF o.TsaCertificate = Nil THEN NoErr
    ELSE IF Val(o.TsaCertificate).RawIssuer # tsaCert.RawIssuer
            \/ Val(o.TsaCertificate).SerialNumber # tsaCert.SerialNumber
         THEN ErrESSCertID
         ELSE NoErr

\* Compares the expected certificate's subject with the subject handed in
\* (the response leaf's); o.Subject is not read.
verifyLeafCertSubject(subject, o) ==
    IF o.TsaCertificate = Nil THEN NoErr
    ELSE IF NameString(Val(o.TsaCertificate).Subject) # subject THEN ErrSubject
         ELSE NoErr

verifyEmbeddedLeafCert(tsaCert, o) ==
    IF o.TsaCertificate # Nil /\ Val(o.TsaCertificate) # tsaCert THEN ErrEmbedded ELSE NoErr

\* The three errors verifyLeafCert builds with fmt.Errorf and drops.
LeafCertErrors(cert, o) ==
    <<verifyESSCertID(cert, o), verifyLeafCertSubject(NameString(cert.Subject), o),
      verifyEmbeddedLeafCert(cert, o)>>

\* Each sub-check's error is wrapped by fmt.Errorf whose value is discarded;
\* the function ends in `return nil`.
verifyLeafCert(cert, o) ==
    LET dropped == LeafCertErrors(cert, o) IN NoErr

\* Variant: any list that contains time stamping is accepted.
verifyExtendedKeyUsage_Contains(cert) ==
    IF \E i \in 1..Len(cert.ExtKeyUsage) : cert.ExtKeyUsage[i] = ExtKeyUsageTimeStamping
    THEN NoErr
    ELSE "leaf cert EKU is not set to TimeStamping as required"

verifyExtendedKeyUsage(cert) ==
    IF Len(cert.ExtKeyUsage) # 1 THEN "cert has wrong number of extended key usages"
    ELSE IF cert.ExtKeyUsage[1] # ExtKeyUsageTimeStamping
         THEN "leaf cert EKU is not set to TimeStamping as required"
         ELSE NoErr

verifyLeafAndIntermediatesEKU(o) ==
    IF o.TsaCertificate = Nil \/ o.Intermediates = Nil THEN NoErr
    ELSE IF verifyExtendedKeyUsage(Val(o.TsaCertificate)) # NoErr THEN ErrEKULeaf
         ELSE IF \E i \in 1..Len(Val(o.Intermediates)) :
                    verifyExtendedKeyUsage(Val(o.Intermediates)[i]) # NoErr
              THEN ErrEKUIntermediate
              ELSE NoErr

\* for i, v := range oid { if v != responseOid[i] ... }
RECURSIVE OIDContentMatches(_, _, _)
OIDContentMatches(oid, responseOid, i) ==
    IF i > Len(oid) THEN TRUE
    ELSE IF oid[i] # responseOid[i] THEN FALSE
         ELSE OIDContentMatches(oid, responseOid, i + 1)

\* Variant: no length check, the positions both identifiers have are compared.
verifyOID_PrefixOnly(oid, o) ==
    IF o.Oid = Nil THEN NoErr
    ELSE IF \E i \in 1..Len(oid) : i <= Len(Val(o.Oid)) /\ oid[i] # Val(o.Oid)[i]
         THEN ErrOIDContent
         ELSE NoErr

verifyOID(oid, o) ==
    IF o.Oid = Nil THEN NoErr
    ELSE IF Len(oid) # Len(Val(o.Oid)) THEN ErrOIDLength
         ELSE IF ~OIDContentMatches(oid, Val(o.Oid), 1) THEN ErrOIDContent
              ELSE NoErr

\* opts.Nonce.Cmp(requestNonce): (*big.Int).Cmp reads its argument's fields, so a
\* nil requestNonce (a response without nonce) is a nil pointer dereference.
\* Variant: an absent expectation is compared as if it were a nonce.
verifyNonce_AbsentRejects(requestNonce, o) ==
    IF o.Nonce = Nil /\ requestNonce = Nil THEN NoErr
    ELSE IF o.Nonce = Nil THEN ErrNonce
         ELSE IF requestNonce = Nil THEN Panic
              ELSE IF Val(o.Nonce) # Val(requestNonce) THEN ErrNonce
                   ELSE NoErr

verifyNonce(requestNonce, o) ==
    IF o.Nonce = Nil THEN NoErr
    ELSE IF requestNonce = Nil THEN Panic
         ELSE IF Val(o.Nonce) # Val(requestNonce) THEN ErrNonce
              ELSE NoErr

\* pkcs7.VerifyWithChain(truststore): the signer's certificate is looked up among
\* the token's certificates by issuer and serial, a path from it must end at a
\* certificate of the pool (intermediates are taken from the token), and the
\* signature must verify under the signer certificate's key.
PoolSubjects(pool) == {c.Subject.CommonName : c \in pool}

PathToPool(ee, certs, pool) ==
    \/ ee.RawIssuer \in PoolSubjects(pool)
    \/ \E i \in 1..Len(certs) :
          /\ certs[i].IsCA
          /\ certs[i].Subject.CommonName = ee.RawIssuer
          /\ certs[i].RawIssuer \in PoolSubjects(pool)

SignerCerts(t) ==
    {i \in 1..Len(t.Certificates) :
        /\ t.Certificates[i].RawIssuer = t.RawToken.SignerIssuer
        /\ t.Certificates[i].SerialNumber = t.RawToken.SignerSerial}

VerifyWithChain(t, pool) ==
    IF SignerCerts(t) = {} THEN FALSE
    ELSE LET ee == t.Certificates[CHOOSE i \in SignerCerts(t) : \A j \in SignerCerts(t) : i <= j]
         IN /\ PathToPool(ee, t.Certificates, pool)
            /\ t.RawToken.SignatureKey = ee.PublicKey
            /\ t.RawToken.Intact

\* The pool is the certPool parameter; opts.Roots and opts.Intermediates are not read.
verifyTSRWithChain(t, pool) ==
    IF ~t.RawToken.WellFormed THEN ErrParseToken
    ELSE IF ~VerifyWithChain(t, pool) THEN ErrChain
         ELSE NoErr

\* Variant: one Read instead of io.Copy, so only the first byte is hashed.
verifyHashedMessages_FirstRead(hashAlg, hashedMessage, artifactReader) ==
    IF artifactReader.readErr THEN ErrReadArtifact
    ELSE IF Digest(hashAlg, SubSeq(artifactReader.data, 1, 1)) # hashedMessage THEN ErrHash
         ELSE NoErr

\* io.Copy(h, artifactReader); h.Sum(nil); bytes.Equal
verifyHashedMessages(hashAlg, hashedMessage, artifactReader) ==
    IF artifactReader.readErr THEN ErrReadArtifact
    ELSE IF Digest(hashAlg, artifactReader.data) # hashedMessage THEN ErrHash
         ELSE NoErr

\* timestamp.ParseResponse: the bytes must be a DER TimeStampResp; a response whose
\* status is not granted is a ParseError.
ParseResponse(bytes) ==
    IF bytes.encoding # "asn1" THEN [ts |-> Nil, err |-> ErrParse]
    ELSE IF bytes.status # "granted" THEN [ts |-> Nil, err |-> ErrNotValid]
         ELSE [ts |-> Some(bytes.token), err |-> NoErr]

\* ------------------------------------------------- verify command's options
\* A flag value is a sequence of one-character strings.
NonceFlagChars == {"1", "2", "x", "-", "+"}
OidFlagChars == {"1", "2", ".", "-"}
NonceFlagValues == SeqsUpTo(NonceFlagChars, MaxNonceFlagLen)
OidFlagValues == SeqsUpTo(OidFlagChars, MaxOidFlagLen)

IsDigit(c) == c \in {"0", "1", "2", "3", "4", "5", "6", "7", "8", "9"}
DigitValue(c) ==
    CASE c = "0" -> 0 [] c = "1" -> 1 [] c = "2" -> 2 [] c = "3" -> 3 [] c = "4" -> 4
      [] c = "5" -> 5 [] c = "6" -> 6 [] c = "7" -> 7 [] c = "8" -> 8 [] c = "9" -> 9

RECURSIVE Decimal(_, _)
Decimal(acc, str) ==
    IF str = <<>> THEN acc ELSE Decimal(acc * 10 + DigitValue(Head(str)), Tail(str))

\* The sign a decimal may start with, and the characters after it.
IsNegative(str) == str # <<>> /\ Head(str) = "-"
Digits(str) == IF str # <<>> /\ Head(str) \in {"+", "-"} THEN Tail(str) ELSE str

\* The syntax big.Int.SetString(s, 10) accepts: an optional sign, then at least
\* one character, digits only.
IsNumber(str) == Digits(str) # <<>> /\ \A i \in 1..Len(Digits(str)) : IsDigit(Digits(str)[i])

SignedDecimal(str) ==
    IF IsNegative(str) THEN 0 - Decimal(0, Digits(str)) ELSE Decimal(0, Digits(str))

RECURSIVE StripZeros(_)
StripZeros(str) ==
    IF Len(str) > 1 /\ Head(str) = "0" THEN StripZeros(Tail(str)) ELSE str

\* Digit strings of one length compare as their numbers do, digit by digit.
RECURSIVE DigitsLeq(_, _)
DigitsLeq(a, b) ==
    IF a = <<>> THEN TRUE
    ELSE IF DigitValue(Head(a)) # DigitValue(Head(b))
         THEN DigitValue(Head(a)) < DigitValue(Head(b))
         ELSE DigitsLeq(Tail(a), Tail(b))

\* Whether the number the digits `d` spell is above the one `limit` spells.
DigitsExceed(d, limit) ==
    \/ Len(StripZeros(d)) > Len(limit)
    \/ Len(StripZeros(d)) = Len(limit) /\ ~DigitsLeq(StripZeros(d), limit)

\* The digits of the largest int (2^63 - 1) and of the largest uint64 (2^64 - 1).
MaxIntDigits ==
    <<"9", "2", "2", "3", "3", "7", "2", "0", "3", "6", "8", "5", "4", "7", "7", "5",
      "8", "0", "7">>
MaxUintDigits ==
    <<"1", "8", "4", "4", "6", "7", "4", "4", "0", "7", "3", "7", "0", "9", "5", "5",
      "1", "6", "1", "5">>

\* The error of strconv.ParseUint(s, 10, 64), which reads s from the left: it
\* stops with a syntax error at the first character that is no digit, and with a
\* range error at the first digit with which the number read exceeds 2^64 - 1.
RECURSIVE ParseUintError(_, _)
ParseUintError(read, rest) ==
    IF rest = <<>>
    THEN IF read = <<>> THEN "strconv.Atoi: invalid syntax" ELSE NoErr
    ELSE IF ~IsDigit(Head(rest)) THEN "strconv.Atoi: invalid syntax"
         ELSE IF DigitsExceed(Append(read, Head(rest)), MaxUintDigits)
              THEN "strconv.Atoi: value out of range"
              ELSE ParseUintError(Append(read, Head(rest)), Tail(rest))

\* new(big.Int).SetString(s, 10): any signed decimal, of any size.
SetString(str) ==
    IF IsNumber(str) THEN [nonce |-> Some(SignedDecimal(str)), ok |-> TRUE]
    ELSE [nonce |-> Nil, ok |-> FALSE]

\* strconv.Atoi(s): the sign is taken off and the rest read as by ParseUint; a
\* number that does not fit an int is a range error too, and the value returned
\* with a range error is the nearest int.
Atoi(str) ==
    LET e == ParseUintError(<<>>, Digits(str))
        limit == IF IsNegative(str)
                 THEN [MaxIntDigits EXCEPT ![Len(MaxIntDigits)] = "8"]
                 ELSE MaxIntDigits
    IN IF e = "strconv.Atoi: invalid syntax" THEN [val |-> 0, err |-> e]
       ELSE IF e # NoErr \/ DigitsExceed(Digits(str), limit)
            THEN [val |-> IF IsNegative(str) THEN "MinInt" ELSE "MaxInt",
                  err |-> "strconv.Atoi: value out of range"]
            ELSE [val |-> SignedDecimal(str), err |-> NoErr]

\* strings.Split(s, "."): `cur` is the piece being read.
RECURSIVE Split(_, _)
Split(str, cur) ==
    IF str = <<>> THEN <<cur>>
    ELSE IF Head(str) = "." THEN <<cur>> \o Split(Tail(str), <<>>)
         ELSE Split(Tail(str), Append(cur, Head(str)))

getNonce(flagVal) ==
    IF flagVal = <<>> THEN [nonce |-> Nil, err |-> NoErr]
    ELSE IF ~SetString(flagVal).ok
         THEN [nonce |-> Nil, err |-> "failed to convert string to big.Int"]
         ELSE [nonce |-> SetString(flagVal).nonce, err |-> NoErr]

\* The error of the first piece strconv.Atoi refuses, if any.
RECURSIVE FirstAtoiError(_)
FirstAtoiError(pieces) ==
    IF pieces = <<>> THEN NoErr
    ELSE IF Atoi(Head(pieces)).err # NoErr THEN Atoi(Head(pieces)).err
         ELSE FirstAtoiError(Tail(pieces))

getOID(flagVal) ==
    IF flagVal = <<>> THEN [oid |-> Nil, err |-> NoErr]
    ELSE LET oidStrSlice == Split(flagVal, <<>>) IN
         IF FirstAtoiError(oidStrSlice) # NoErr
         THEN [oid |-> Nil, err |-> FirstAtoiError(oidStrSlice)]
         ELSE [oid |-> Some([i \in 1..Len(oidStrSlice) |-> Atoi(oidStrSlice[i]).val]),
               err |-> NoErr]

\* A file a flag names: whether it can be read, whether it is PEM, and the
\* certificates in it.
PEMFile(readable, pem, certs) == [readable |-> readable, pem |-> pem, certs |-> certs]

\* The certificate-chain flag: Nil when empty, else the file it names.
getRootAndIntermediateCerts(chainFlag) ==
    IF chainFlag = Nil THEN [roots |-> Nil, intermediates |-> Nil, err |-> NoErr]
    ELSE IF ~Val(chainFlag).readable
    THEN [roots |-> Nil, intermediates |-> Nil, err |-> "error reading request from file"]
    ELSE IF ~Val(chainFlag).pem
    THEN [roots |-> Nil, intermediates |-> Nil,
          err |-> "failed to parse intermediate and root certs from PEM file"]
    ELSE LET certs == Val(chainFlag).certs IN
         IF Len(certs) = 0
         THEN [roots |-> Nil, intermediates |-> Nil,
               err |-> "expected at least one certificate to represent the root"]
         ELSE [roots |-> Some(<<certs[Len(certs)]>>),
               intermediates |-> Some(SubSeq(certs, 1, Len(certs) - 1)),
               err |-> NoErr]

EmptyOpts == VerifyOpts(Nil, Nil, Nil, Nil, Nil, "")

\* The VerifyOpts the verify command fills: its fields are OID, TSACertificate
\* and CommonName where the package under verification has Oid, TsaCertificate
\* and Subject.
CommandVerifyOpts(oid, tsaCertificate, intermediates, roots, nonce, commonName) ==
    [OID |-> oid, TSACertificate |-> tsaCertificate, Intermediates |-> intermediates,
     Roots |-> roots, Nonce |-> nonce, CommonName |-> commonName]

EmptyCommandOpts == CommandVerifyOpts(Nil, Nil, Nil, Nil, Nil, "")

\* The file the certificate flag names must be readable PEM holding exactly one
\* certificate.
parseTSACertificate(certPath) ==
    IF ~certPath.readable
    THEN [cert |-> Nil, err |-> "error reading TSA's certificate file"]
    ELSE IF ~certPath.pem
    THEN [cert |-> Nil, err |-> "failed to parse TSA certificate during verification"]
    ELSE IF Len(certPath.certs) # 1 THEN [cert |-> Nil, err |-> "expected one certificate"]
    ELSE [cert |-> Some(certPath.certs[1]), err |-> NoErr]

\* The certificate flag is Nil when empty, else the file it names; the common-name
\* flag is stored as CommonName.
newVerifyOpts(f) ==
    LET o == getOID(f.oid)
        t == IF f.certificate = Nil THEN [cert |-> Nil, err |-> NoErr]
             ELSE parseTSACertificate(Val(f.certificate))
        c == getRootAndIntermediateCerts(f.certificateChain)
        n == getNonce(f.nonce)
    IN IF o.err # NoErr
       THEN [opts |-> EmptyCommandOpts, err |-> "failed to parse value from oid flag"]
       ELSE IF t.err # NoErr
       THEN [opts |-> EmptyCommandOpts,
             err |-> "failed to parse cert flag value from PEM file"]
       ELSE IF c.err # NoErr
       THEN [opts |-> EmptyCommandOpts,
             err |-> "failed to parse root and intermediate certs"]
       ELSE IF n.err # NoErr
       THEN [opts |-> EmptyCommandOpts, err |-> "failed to parse value from nonce flag"]
       ELSE [opts |-> CommandVerifyOpts(o.oid, t.cert, c.intermediates, c.roots, n.nonce,
                                        f.commonName),
             err |-> NoErr]

\* ------------------------------------------------------------------- state
VARIABLES
    flags,        \* Some(flags of the verify command), Nil when the package is called directly
    tsrBytes,     \* the timestamp response handed to VerifyTimestampResponse
    artifact,     \* the artifact reader: its data and whether reading fails
    certPool,     \* the certPool argument
    opts,         \* the VerifyOpts argument
    ts,           \* the parsed response, Nil before ParseResponse returned one
    pc,           \* the statement VerifyTimestampResponse is at
    err,          \* its return value once pc = "done"
    ran,          \* the checks run so far, in order
    artifactRead, \* whether the artifact reader has been read from
    cmdOutput     \* what the verify command returns beside its error, Nil for nil

verifyVars ==
    <<flags, tsrBytes, artifact, certPool, opts, ts, pc, err, ran, artifactRead, cmdOutput>>

VARIABLES
    api,          \* the process-wide certChain, certChainPem and tsaSigner
    params,       \* the request handed to TimestampResponseHandler
    hpc,          \* the statement the handler is at
    req,          \* the decoded *timestamp.Request, Nil while absent
    tsStruct,     \* the timestamp.Timestamp built from the request
    resp,         \* the bytes CreateResponse returned
    httpStatus,   \* the status of the responder returned, 0 before it returns
    signCalls     \* how often the signing capability was invoked

handlerVars == <<api, params, hpc, req, tsStruct, resp, httpStatus, signCalls>>

VARIABLES
    calls,        \* the handler invocations the server runs side by side, each with
                  \* its own locals
    maker         \* the locals of the certificate maker's create run, Nil outside one

otherVars == <<calls, maker>>

vars == <<verifyVars, handlerVars, otherVars>>

\* ------------------------------------------------------------------ inputs
Token(leaf, certs, nonce, policy, alg, hashed) ==
    [HashAlgorithm |-> alg, HashedMessage |-> hashed, Nonce |-> nonce, Policy |-> policy,
     Certificates |-> certs,
     RawToken |-> [SignerIssuer |-> leaf.RawIssuer, SignerSerial |-> leaf.SerialNumber,
                   SignatureKey |-> leaf.PublicKey, Intact |-> TRUE, WellFormed |-> TRUE]]

Granted(token) == [encoding |-> "asn1", status |-> "granted", token |-> token]

Reader(data, readErr) == [data |-> data, readErr |-> readErr]

\* No response at hand.
NoBytes == [encoding |-> "none", status |-> "none", token |-> Nil]

PolicyA == <<1, 2>>
PolicyB == <<1, 1>>
ArtifactA == <<0, 1>>
ArtifactB == <<1, 1>>

GenuineToken ==
    Token(LeafCert, <<LeafCert, IntermediateCert>>, Some(1), PolicyA, "SHA256",
          Digest("SHA256", ArtifactA))

\* Responses that differ from the genuine one in one respect.
TokenVariants ==
    {GenuineToken}
    \cup {[GenuineToken EXCEPT !.RawToken.Intact = FALSE],
          [GenuineToken EXCEPT !.RawToken.WellFormed = FALSE],
          [GenuineToken EXCEPT !.RawToken.SignatureKey = "k2"],
          [GenuineToken EXCEPT !.Certificates = <<>>],
          [GenuineToken EXCEPT !.Certificates = <<LeafCert>>],
          [GenuineToken EXCEPT !.Certificates =
               <<LeafCert, [IntermediateCert EXCEPT !.RawIssuer = "rootB"]>>],
          [GenuineToken EXCEPT !.Policy = PolicyB],
          [GenuineToken EXCEPT !.HashedMessage = Digest("SHA256", ArtifactB)],
          [GenuineToken EXCEPT !.HashAlgorithm = "SHA512",
                               !.HashedMessage = Digest("SHA512", ArtifactA)]}
    \cup {[GenuineToken EXCEPT !.Nonce = n] : n \in {Nil} \cup {Some(k) : k \in Nonces}}

ResponseVariants ==
    {Granted(t) : t \in TokenVariants}
    \cup {[encoding |-> "asn1", status |-> "rejection", token |-> GenuineToken],
          [encoding |-> "garbage", status |-> "granted", token |-> GenuineToken]}

Pools == {{RootCert("rootA")}, {RootCert("rootB")}}

\* Every combination of the optional expectations, over a few values each.
OptsVariants ==
    {VerifyOpts(oid, tsa, ints, roots, nonce, subject) :
        oid \in {Nil, Some(PolicyA), Some(PolicyB)},
        tsa \in {Nil, Some(LeafCert), Some([LeafCert EXCEPT !.SerialNumber = 2]),
                 Some([LeafCert EXCEPT !.ExtKeyUsage = <<ExtKeyUsageServerAuth>>])},
        ints \in {Nil, Some(<<IntermediateCert>>),
                  Some(<<[IntermediateCert EXCEPT !.ExtKeyUsage = <<>>]>>)},
        roots \in {Some(<<RootCert("rootA")>>), Some(<<RootCert("rootB")>>)},
        nonce \in {Nil} \cup {Some(k) : k \in Nonces},
        subject \in {"", "CN=other,O=sigstore"}}

\* The verify command.  The timestamp and artifact flags name files, which may
\* be missing; so do the certificate and certificate-chain flags, Nil when empty.
TimestampFiles == {[readable |-> TRUE, bytes |-> Granted(GenuineToken)],
                   [readable |-> FALSE, bytes |-> NoBytes]}
ArtifactFiles == {[exists |-> TRUE, reader |-> Reader(ArtifactA, FALSE)],
                  [exists |-> FALSE, reader |-> Reader(<<>>, TRUE)]}
CertificateFiles ==
    {Nil, Some(PEMFile(TRUE, TRUE, <<LeafCert>>)), Some(PEMFile(TRUE, TRUE, <<>>)),
     Some(PEMFile(TRUE, TRUE, <<LeafCert, IntermediateCert>>)),
     Some(PEMFile(FALSE, FALSE, <<>>)), Some(PEMFile(TRUE, FALSE, <<>>))}
CertificateChainFiles ==
    {Nil, Some(PEMFile(TRUE, TRUE, <<>>)), Some(PEMFile(TRUE, TRUE, <<RootCert("rootA")>>)),
     Some(PEMFile(TRUE, TRUE, <<IntermediateCert, RootCert("rootA")>>)),
     Some(PEMFile(FALSE, FALSE, <<>>)), Some(PEMFile(TRUE, FALSE, <<>>))}

Flags(timestamp, artifactFile, nonce, oid, certificate, certificateChain, commonName) ==
    [timestamp |-> timestamp, artifact |-> artifactFile, nonce |-> nonce, oid |-> oid,
     certificate |-> certificate, certificateChain |-> certificateChain,
     commonName |-> commonName]

\* Every nonce flag, every oid flag, and every combination of the files.
FlagSets ==
    {Flags(t, a, nonce, oid, Nil, Some(PEMFile(TRUE, TRUE, <<RootCert("rootA")>>)), "") :
        t \in TimestampFiles, a \in ArtifactFiles,
        nonce \in NonceFlagValues, oid \in {<<>>, <<"1", ".", "2">>}}
    \cup {Flags(t, a, nonce, oid, Nil, Some(PEMFile(TRUE, TRUE, <<RootCert("rootA")>>)), "") :
        t \in TimestampFiles, a \in ArtifactFiles,
        nonce \in {<<>>, <<"1">>}, oid \in OidFlagValues}
    \cup {Flags(t, a, nonce, oid, c, chain, cn) :
        t \in TimestampFiles, a \in ArtifactFiles,
        nonce \in {<<>>, <<"1">>}, oid \in {<<>>, <<"1", ".", "2">>},
        c \in CertificateFiles, chain \in CertificateChainFiles, cn \in {"", "tsa"}}

\* ------------------------------------------------------------------ handler
\* Loaded once at startup: the chain (leaf first), its PEM form and the signer.
StartupAPI ==
    [certChain |-> <<LeafCert, IntermediateCert, RootCert("rootA")>>,
     certChainPem |-> "PEM(leaf,intA,rootA)",
     tsaSigner |-> LeafCert.PublicKey]

Request(alg, hashed, nonce, policy, certificates) ==
    [HashAlgorithm |-> alg, HashedMessage |-> hashed, Nonce |-> nonce,
     TSAPolicyOID |-> policy, Certificates |-> certificates, Extensions |-> <<>>]

\* No request is being handled.
HandlerIdle ==
    /\ api = StartupAPI
    /\ params = Nil
    /\ hpc = "idle"
    /\ req = Nil
    /\ tsStruct = Nil
    /\ resp = Nil
    /\ httpStatus = 0
    /\ signCalls = 0

\* No invocations run side by side and the certificate maker is not running.
OthersIdle == calls = <<>> /\ maker = Nil

\* timestamp.ParseJSONRequest / timestamp.ParseASN1Request: the body must be
\* well-formed in the format the parser reads.
ParseRequest(format, body) ==
    IF body.format = format /\ body.wellFormed
    THEN [req |-> Some(body.request), err |-> NoErr]
    ELSE [req |-> Nil, err |-> "malformed request"]

\* verification.VerifyRequest: SHA-1 is refused, and so is a hashed message whose
\* length is not the digest size of the declared algorithm; it reads the request's
\* fields, so a nil request is a nil pointer dereference.
VerifyRequest(r) ==
    IF r = Nil THEN Panic
    ELSE IF Val(r).HashAlgorithm = "SHA1" THEN "weak hash algorithm"
         ELSE IF Len(Val(r).HashedMessage) # HashSize(Val(r).HashAlgorithm)
              THEN "inconsistent digest length"
              ELSE NoErr

\* What a call of VerifyRequest may end in.  For an absent request that is not
\* settled: a nil pointer dereference, an error, or no error at all.
VerifyRequestOutcomes(r) ==
    IF r = Nil THEN {Panic, "request rejected", NoErr} ELSE {VerifyRequest(r)}

\* A policy that is always this authority's default.
PolicyID_AlwaysDefault(r) == DefaultPolicyOID

\* policyID := req.TSAPolicyOID; if policyID.String() == "" { policyID = default }
PolicyID(r) == IF Len(r.TSAPolicyOID) = 0 THEN DefaultPolicyOID ELSE r.TSAPolicyOID

\* tsStruct := timestamp.Timestamp{...}  (Time and Accuracy are left out)
TimestampStruct(r) ==
    [HashAlgorithm |-> r.HashAlgorithm, HashedMessage |-> r.HashedMessage,
     Nonce |-> r.Nonce, Policy |-> PolicyID(r), Ordering |-> FALSE, Qualified |-> FALSE,
     AddTSACertificate |-> r.Certificates, ExtraExtensions |-> r.Extensions]

\* contentType is set only in the two branches that decode the body.
ContentType(val) ==
    IF val \in {"application/json", "application/timestamp-query"} THEN val ELSE ""

MarshalFunc(contentType) == IF contentType = "application/json" THEN "json" ELSE "asn1"

\* tsStruct.CreateResponse(cert, signer, marshalFunc): the token is signed by the
\* signer, names cert as its signer, embeds it when AddTSACertificate is set, and
\* is serialised by marshalFunc.
CreateResponse(t, cert, signer, marshalFunc) ==
    [encoding |-> marshalFunc, status |-> "granted",
     token |-> [HashAlgorithm |-> t.HashAlgorithm, HashedMessage |-> t.HashedMessage,
                Nonce |-> t.Nonce, Policy |-> t.Policy,
                Certificates |-> IF t.AddTSACertificate THEN <<cert>> ELSE <<>>,
                RawToken |-> [SignerIssuer |-> cert.RawIssuer,
                              SignerSerial |-> cert.SerialNumber,
                              SignatureKey |-> signer, Intact |-> TRUE,
                              WellFormed |-> TRUE]]]

\* handleTimestampAPIError(params, code, err, msg)
Respond(code) == hpc' = "responded" /\ httpStatus' = code

HandlerReadAll ==
    /\ hpc = "ReadAll"
    /\ IF Val(params).body.readErr THEN Respond(400)
       ELSE hpc' = "parse" /\ httpStatus' = httpStatus
    /\ UNCHANGED <<api, params, req, tsStruct, resp, signCalls, verifyVars, otherVars>>

\* A handler that reads every body that is not JSON as a timestamp query.
HandlerParse_DefaultsToQuery ==
    /\ hpc = "parse"
    /\ LET r == IF Val(params).contentType = "application/json"
                THEN ParseRequest("json", Val(params).body)
                ELSE ParseRequest("asn1", Val(params).body)
       IN /\ req' = r.req
          /\ IF r.err # NoErr THEN Respond(400)
             ELSE hpc' = "VerifyRequest" /\ httpStatus' = httpStatus
    /\ UNCHANGED <<api, params, tsStruct, resp, signCalls, verifyVars, otherVars>>

HandlerParse ==
    /\ hpc = "parse"
    /\ LET val == Val(params).contentType
           r == IF val = "application/json" THEN ParseRequest("json", Val(params).body)
                ELSE IF val = "application/timestamp-query"
                     THEN ParseRequest("asn1", Val(params).body)
                     ELSE [req |-> Nil, err |-> NoErr]
       IN /\ req' = r.req
          /\ IF r.err # NoErr THEN Respond(400)
             ELSE hpc' = "VerifyRequest" /\ httpStatus' = httpStatus
    /\ UNCHANGED <<api, params, tsStruct, resp, signCalls, verifyVars, otherVars>>

\* A handler that signs whatever VerifyRequest says about a decoded request.
HandlerVerifyRequest_ErrorIgnored ==
    /\ hpc = "VerifyRequest"
    /\ \E e \in VerifyRequestOutcomes(req) :
         IF e = Panic THEN hpc' = "panicked" ELSE hpc' = "CreateResponse"
    /\ UNCHANGED <<api, params, req, tsStruct, resp, httpStatus, signCalls, verifyVars,
                   otherVars>>

HandlerVerifyRequest ==
    /\ hpc = "VerifyRequest"
    /\ \E e \in VerifyRequestOutcomes(req) :
         IF e = Panic THEN hpc' = "panicked" /\ httpStatus' = httpStatus
         ELSE IF e # NoErr THEN Respond(400)
              ELSE hpc' = "CreateResponse" /\ httpStatus' = httpStatus
    /\ UNCHANGED <<api, params, req, tsStruct, resp, signCalls, verifyVars, otherVars>>

\* The timestamp is built and CreateResponse called, which invokes the signer
\* and waits for it.  Reading req.TSAPolicyOID of an absent request is a nil
\* pointer dereference.
HandlerCreateResponse ==
    /\ hpc = "CreateResponse"
    /\ IF req = Nil
       THEN /\ hpc' = "panicked"
            /\ UNCHANGED <<tsStruct, signCalls>>
       ELSE /\ tsStruct' = Some(TimestampStruct(Val(req)))
            /\ signCalls' = signCalls + 1
            /\ hpc' = "signing"
    /\ UNCHANGED <<api, params, req, resp, httpStatus, verifyVars, otherVars>>

\* CreateResponse returns: a signing failure is a 500, else the response is sent.
HandlerReturnResponse ==
    /\ hpc = "signing"
    /\ IF Val(params).signerFails
       THEN Respond(500) /\ resp' = resp
       ELSE /\ resp' = Some(CreateResponse(Val(tsStruct), api.certChain[1], api.tsaSigner,
                                           MarshalFunc(ContentType(
                                               Val(params).contentType))))
            /\ Respond(201)
    /\ UNCHANGED <<api, params, req, tsStruct, signCalls, verifyVars, otherVars>>

TimestampResponseHandler ==
    \/ HandlerReadAll
    \/ HandlerParse
    \/ HandlerVerifyRequest
    \/ HandlerCreateResponse
    \/ HandlerReturnResponse

\* ----------------------------------------------------------------- actions
\* A call of VerifyTimestampResponse (f = Nil) or a run of the verify command.
Start(f, bytes, reader, pool, o) ==
    /\ flags = f
    /\ tsrBytes = bytes
    /\ artifact = reader
    /\ certPool = pool
    /\ opts = o
    /\ ts = Nil
    /\ pc = IF f = Nil THEN "ParseResponse" ELSE "newVerifyOpts"
    /\ err = NoErr
    /\ ran = <<>>
    /\ artifactRead = FALSE
    /\ cmdOutput = Nil
    /\ HandlerIdle
    /\ OthersIdle

PipelineInit ==
    \E bytes \in ResponseVariants, pool \in Pools, o \in OptsVariants,
       reader \in {Reader(ArtifactA, FALSE), Reader(ArtifactB, FALSE), Reader(ArtifactA, TRUE)} :
        Start(Nil, bytes, reader, pool, o)

\* verifyOID over every pair of object identifiers.
OIDInit ==
    \E policy \in Oids, oid \in {Nil, Some(<<>>)} \cup {Some(x) : x \in Oids} :
        Start(Nil, Granted([GenuineToken EXCEPT !.Policy = policy]), Reader(ArtifactA, FALSE),
              {RootCert("rootA")}, [EmptyOpts EXCEPT !.Oid = oid])

\* verifyLeafAndIntermediatesEKU over every list of intermediates.
EKUInit ==
    \E tsa \in {Nil} \cup {Some(c) : c \in LeafEKUCerts},
       ints \in {Nil} \cup {Some(l) : l \in SeqsUpTo(IntermediateEKUCerts, MaxIntermediates)} :
        Start(Nil, Granted(GenuineToken), Reader(ArtifactA, FALSE), {RootCert("rootA")},
              [EmptyOpts EXCEPT !.TsaCertificate = tsa, !.Intermediates = ints])

\* verifyLeafCert over every pair of response leaf and expected leaf.
LeafInit ==
    \E leaf \in IdentityCerts, tsa \in {Nil} \cup {Some(c) : c \in IdentityCerts},
       subject \in {"", "CN=tsa,O=sigstore", "CN=other,O=sigstore"} :
        Start(Nil,
              Granted(Token(leaf, <<leaf, IntermediateCert>>, Some(1), PolicyA, "SHA256",
                            Digest("SHA256", ArtifactA))),
              Reader(ArtifactA, FALSE), {RootCert("rootA"), RootCert("rootB")},
              [EmptyOpts EXCEPT !.TsaCertificate = tsa, !.Subject = subject])

\* verifyHashedMessages over every artifact, algorithm and hashed message.
HashInit ==
    \E alg \in HashAlgs, hashed \in {Digest(a, d) : a \in HashAlgs, d \in Artifacts},
       data \in Artifacts, readErr \in BOOLEAN :
        Start(Nil,
              Granted([GenuineToken EXCEPT !.HashAlgorithm = alg, !.HashedMessage = hashed]),
              Reader(data, readErr), {RootCert("rootA")}, EmptyOpts)

\* A run of the verify command: nothing is read yet.
CLIInit ==
    \E f \in FlagSets :
        Start(Some(f), NoBytes, Reader(<<>>, FALSE), {}, EmptyCommandOpts)

Init == PipelineInit \/ OIDInit \/ EKUInit \/ LeafInit \/ HashInit \/ CLIInit

\* `if err != nil { return err }` after the check at `here`; otherwise go on to `next`.
Return(here, e, next) ==
    /\ ran' = Append(ran, here)
    /\ IF e # NoErr
       THEN pc' = "done" /\ err' = e
       ELSE pc' = next /\ err' = IF next = "done" THEN NoErr ELSE err

\* What runVerify returns beside the error: the struct, or a pointer to it.
verifyCmdOutput(f, pointer) == Some([TimestampPath |-> f.timestamp, pointer |-> pointer])

\* runVerify up to the call of the verification: the timestamp file is read, the
\* artifact opened, the options built from the flags; each failure ends the run.
RunVerify ==
    /\ pc = "newVerifyOpts"
    /\ LET f == Val(flags)
           r == newVerifyOpts(f)
       IN IF ~f.timestamp.readable
          THEN /\ pc' = "done" /\ err' = "error reading request from file"
               /\ UNCHANGED <<tsrBytes, artifact, opts, cmdOutput>>
          ELSE IF ~f.artifact.exists
          THEN /\ tsrBytes' = f.timestamp.bytes
               /\ pc' = "done" /\ err' = "open: no such file or directory"
               /\ UNCHANGED <<artifact, opts, cmdOutput>>
          ELSE /\ tsrBytes' = f.timestamp.bytes
               /\ artifact' = f.artifact.reader
               /\ opts' = r.opts
               /\ IF r.err # NoErr
                  THEN /\ pc' = "done" /\ err' = "failed to created VerifyOpts"
                       /\ cmdOutput' = verifyCmdOutput(f, FALSE)
                  ELSE /\ pc' = "VerifyTimestampResponse" /\ err' = err
                       /\ cmdOutput' = cmdOutput
    /\ UNCHANGED <<flags, certPool, ts, ran, artifactRead, handlerVars, otherVars>>

\* err = verification.VerifyTimestampResponse(tsrBytes, artifact, opts); return
\* &verifyCmdOutput{...}, err.  The function called takes three arguments and is
\* not the one modelled above, so the call may end either way.
RunVerifyReturn ==
    /\ pc = "VerifyTimestampResponse"
    /\ pc' = "done"
    /\ err' \in {NoErr, "verification failed"}
    /\ cmdOutput' = verifyCmdOutput(Val(flags), TRUE)
    /\ UNCHANGED <<flags, tsrBytes, artifact, certPool, opts, ts, ran, artifactRead,
                   handlerVars, otherVars>>

VerifyParseResponse ==
    /\ pc = "ParseResponse"
    /\ LET r == ParseResponse(tsrBytes) IN
         /\ ts' = r.ts
         /\ IF r.err # NoErr
            THEN pc' = "done" /\ err' = r.err
            ELSE pc' = "verifyTSRWithChain" /\ err' = err
    /\ UNCHANGED <<flags, cmdOutput, tsrBytes, artifact, certPool, opts, ran, artifactRead, handlerVars, otherVars>>

VerifySignature ==
    /\ pc = "verifyTSRWithChain"
    /\ Return("verifyTSRWithChain", verifyTSRWithChain(Val(ts), certPool), "verifyNonce")
    /\ UNCHANGED <<flags, cmdOutput, tsrBytes, artifact, certPool, opts, ts, artifactRead, handlerVars, otherVars>>

VerifyNonce ==
    /\ pc = "verifyNonce"
    /\ Return("verifyNonce", verifyNonce(Val(ts).Nonce, opts), "verifyOID")
    /\ UNCHANGED <<flags, cmdOutput, tsrBytes, artifact, certPool, opts, ts, artifactRead, handlerVars, otherVars>>

VerifyOID ==
    /\ pc = "verifyOID"
    /\ Return("verifyOID", verifyOID(Val(ts).Policy, opts), "verifyLeafAndIntermediatesEKU")
    /\ UNCHANGED <<flags, cmdOutput, tsrBytes, artifact, certPool, opts, ts, artifactRead, handlerVars, otherVars>>

VerifyEKU ==
    /\ pc = "verifyLeafAndIntermediatesEKU"
    /\ Return("verifyLeafAndIntermediatesEKU", verifyLeafAndIntermediatesEKU(opts),
              "verifyLeafCert")
    /\ UNCHANGED <<flags, cmdOutput, tsrBytes, artifact, certPool, opts, ts, artifactRead, handlerVars, otherVars>>

\* ts.Certificates[0]: an index out of range panics.
VerifyLeaf ==
    /\ pc = "verifyLeafCert"
    /\ Return("verifyLeafCert",
              IF Len(Val(ts).Certificates) = 0 THEN Panic
              ELSE verifyLeafCert(Val(ts).Certificates[1], opts),
              "verifyHashedMessages")
    /\ UNCHANGED <<flags, cmdOutput, tsrBytes, artifact, certPool, opts, ts, artifactRead, handlerVars, otherVars>>

VerifyHash ==
    /\ pc = "verifyHashedMessages"
    /\ artifactRead' = TRUE
    /\ Return("verifyHashedMessages",
              verifyHashedMessages(Val(ts).HashAlgorithm, Val(ts).HashedMessage, artifact),
              "done")
    /\ UNCHANGED <<flags, cmdOutput, tsrBytes, artifact, certPool, opts, ts, handlerVars, otherVars>>

VerifyTimestampResponse ==
    \/ VerifyParseResponse
    \/ VerifySignature
    \/ VerifyNonce
    \/ VerifyOID
    \/ VerifyEKU
    \/ VerifyLeaf
    \/ VerifyHash

Next == RunVerify \/ RunVerifyReturn \/ VerifyTimestampResponse

Spec == Init /\ [][Next]_vars

\* ------------------------------------------------- issue, then verify
\* A client hashes an artifact, sends the request, and verifies the response it
\* gets against the authority's chain and its own artifact, expecting the nonce it
\* sent and the policy the response was issued under.

\* The certificates of the chain above the leaf, as a pool.
ChainPool == {api.certChain[i] : i \in 2..Len(api.certChain)}

RoundTripInit ==
    \E contentType \in {"application/json", "application/timestamp-query", "text/plain"},
       format \in {"json", "asn1"}, wellFormed \in BOOLEAN, readErr \in BOOLEAN,
       alg \in {"SHA1", "SHA256", "SHA512"}, hashedWith \in {"SHA1", "SHA256", "SHA512"},
       data \in Artifacts, nonce \in {Nil} \cup {Some(k) : k \in Nonces},
       policy \in {<<>>, PolicyA, <<1, 2, 3>>}, certificates \in BOOLEAN,
       extensions \in {<<>>, <<"ext">>}, signerFails \in BOOLEAN :
        /\ api = StartupAPI
        /\ params = Some([contentType |-> contentType,
                          body |-> [readErr |-> readErr, format |-> format,
                                    wellFormed |-> wellFormed,
                                    request |-> [Request(alg, Digest(hashedWith, data),
                                                         nonce, policy, certificates)
                                                     EXCEPT !.Extensions = extensions]],
                          signerFails |-> signerFails])
        /\ hpc = "ReadAll"
        /\ req = Nil
        /\ tsStruct = Nil
        /\ resp = Nil
        /\ httpStatus = 0
        /\ signCalls = 0
        /\ flags = Nil
        /\ tsrBytes = NoBytes
        /\ artifact = Reader(data, FALSE)
        /\ certPool = {}
        /\ opts = EmptyOpts
        /\ ts = Nil
        /\ pc = "idle"
        /\ err = NoErr
        /\ ran = <<>>
        /\ artifactRead = FALSE
        /\ cmdOutput = Nil
        /\ OthersIdle

\* The client hands the created response to VerifyTimestampResponse.
VerifyIssued ==
    /\ pc = "idle"
    /\ hpc = "responded" /\ httpStatus = 201
    /\ tsrBytes' = Val(resp)
    /\ certPool' = ChainPool
    /\ opts' = [EmptyOpts EXCEPT !.Nonce = Val(req).Nonce, !.Oid = Some(Val(tsStruct).Policy)]
    /\ pc' = "ParseResponse"
    /\ UNCHANGED <<flags, cmdOutput, artifact, ts, err, ran, artifactRead, handlerVars, otherVars>>

RoundTripNext == TimestampResponseHandler \/ VerifyIssued \/ VerifyTimestampResponse

SpecRoundTrip == RoundTripInit /\ [][RoundTripNext]_vars

\* ------------------------------------------------------- certificate maker
\* VerifyTimestampResponse is not running.
VerifyIdle ==
    /\ flags = Nil
    /\ tsrBytes = NoBytes
    /\ artifact = Reader(<<>>, FALSE)
    /\ certPool = {}
    /\ opts = EmptyOpts
    /\ ts = Nil
    /\ pc = "idle"
    /\ err = NoErr
    /\ ran = <<>>
    /\ artifactRead = FALSE
    /\ cmdOutput = Nil

KMSTypes == {"awskms", "gcpkms", "azurekms", "hashivault", ""}

\* What os.Stat says about the credentials file.
StatResults == {"exists", "not exist", "permission denied"}

RootTemplate == "root-template.json"
LeafTemplate == "leaf-template.json"
IntermediateTemplate == "intermediate-template.json"
TemplatePaths == {RootTemplate, LeafTemplate, IntermediateTemplate}

\* The flags and environment of a create run, with what the run finds outside
\* itself: the credentials file, the key-management service, the template files.
CreateFlags ==
    [kmsType : KMSTypes, awsRegion : {"", "us-east-1"},
     gcpCredentialsFile : {"", "creds.json"}, statResult : StatResults,
     azureTenantID : {"", "tenant"}, vaultToken : {"", "token"},
     vaultAddress : {"", "https://vault"},
     rootKeyID : {"root-key"}, intermediateKeyID : {"", "intermediate-key"},
     leafKeyID : {"leaf-key"},
     kmsFails : BOOLEAN, validTemplates : SUBSET TemplatePaths, createFails : BOOLEAN]

ErrCredentialsNotFound == "failed to initialize KMS: credentials file not found"
ErrCredentialsAccess == "failed to initialize KMS: error accessing credentials file"
ErrInitKMS == "failed to initialize KMS"
ErrRootTemplate == "root template error"
ErrLeafTemplate == "leaf template error"
ErrIntermediateTemplate == "intermediate template error"
ErrCreateCertificates == "error creating certificates"

\* switch config.Type: the options of the provider in use, where set.
KMSOptions(f) ==
    CASE f.kmsType = "awskms" ->
           IF f.awsRegion # "" THEN {<<"aws-region", f.awsRegion>>} ELSE {}
      [] f.kmsType = "gcpkms" ->
           IF f.gcpCredentialsFile # ""
           THEN {<<"gcp-credentials-file", f.gcpCredentialsFile>>} ELSE {}
      [] f.kmsType = "azurekms" ->
           IF f.azureTenantID # "" THEN {<<"azure-tenant-id", f.azureTenantID>>} ELSE {}
      [] f.kmsType = "hashivault" ->
           (IF f.vaultToken # "" THEN {<<"vault-token", f.vaultToken>>} ELSE {})
           \cup (IF f.vaultAddress # "" THEN {<<"vault-address", f.vaultAddress>>} ELSE {})
      [] OTHER -> {}

\* The credentials file of gcpkms is looked up before it is used.
CredentialsError(f) ==
    IF f.kmsType = "gcpkms" /\ f.gcpCredentialsFile # "" /\ f.statResult # "exists"
    THEN IF f.statResult = "not exist" THEN ErrCredentialsNotFound ELSE ErrCredentialsAccess
    ELSE NoErr

KMSConfig(f) ==
    [Type |-> f.kmsType, RootKeyID |-> f.rootKeyID,
     IntermediateKeyID |-> f.intermediateKeyID, LeafKeyID |-> f.leafKeyID,
     Options |-> KMSOptions(f)]

\* certmaker.ValidateTemplatePath: the file must exist and parse.
ValidateTemplatePath(f, path) ==
    IF path \in f.validTemplates THEN NoErr ELSE "template not found or invalid"

CreateFinish(e) == [Val(maker) EXCEPT !.pc = "done", !.err = e]

\* One template validation of runCreate: a failure ends the run with `e`.
CreateValidate(path, e, next) ==
    LET m == Val(maker) IN
        maker' = Some(IF ValidateTemplatePath(m.flags, path) # NoErr
                      THEN [m EXCEPT !.pc = "done", !.err = e,
                                     !.validated = @ \cup {path}]
                      ELSE [m EXCEPT !.pc = next, !.validated = @ \cup {path}])

CreateInit ==
    /\ VerifyIdle
    /\ HandlerIdle
    /\ calls = <<>>
    /\ \E f \in CreateFlags :
          maker = Some([flags |-> f, pc |-> "config", err |-> NoErr, config |-> Nil,
                        km |-> FALSE, validated |-> {}, createCalls |-> 0])

\* config := certmaker.KMSConfig{...}; switch config.Type {...}
CreateConfig ==
    /\ maker # Nil /\ Val(maker).pc = "config"
    /\ LET m == Val(maker) IN
         maker' = Some(IF CredentialsError(m.flags) # NoErr
                       THEN CreateFinish(CredentialsError(m.flags))
                       ELSE [m EXCEPT !.pc = "InitKMS",
                                      !.config = Some(KMSConfig(m.flags))])
    /\ UNCHANGED <<verifyVars, handlerVars, calls>>

\* km, err := certmaker.InitKMS(ctx, config)
CreateInitKMS ==
    /\ maker # Nil /\ Val(maker).pc = "InitKMS"
    /\ LET m == Val(maker) IN
         maker' = Some(IF m.flags.kmsFails THEN CreateFinish(ErrInitKMS)
                       ELSE [m EXCEPT !.pc = "root-template", !.km = TRUE])
    /\ UNCHANGED <<verifyVars, handlerVars, calls>>

CreateValidateRoot ==
    /\ maker # Nil /\ Val(maker).pc = "root-template"
    /\ CreateValidate(RootTemplate, ErrRootTemplate, "leaf-template")
    /\ UNCHANGED <<verifyVars, handlerVars, calls>>

\* A run that takes the leaf template as it is.
CreateValidateLeaf_Skipped ==
    /\ maker # Nil /\ Val(maker).pc = "leaf-template"
    /\ maker' = Some([Val(maker) EXCEPT !.pc = "intermediate-template"])
    /\ UNCHANGED <<verifyVars, handlerVars, calls>>

CreateValidateLeaf ==
    /\ maker # Nil /\ Val(maker).pc = "leaf-template"
    /\ CreateValidate(LeafTemplate, ErrLeafTemplate, "intermediate-template")
    /\ UNCHANGED <<verifyVars, handlerVars, calls>>

\* if viper.GetString("intermediate-key-id") != "" { validate the intermediate template }
CreateValidateIntermediate ==
    /\ maker # Nil /\ Val(maker).pc = "intermediate-template"
    /\ IF Val(maker).flags.intermediateKeyID # ""
       THEN CreateValidate(IntermediateTemplate, ErrIntermediateTemplate,
                           "CreateCertificates")
       ELSE maker' = Some([Val(maker) EXCEPT !.pc = "CreateCertificates"])
    /\ UNCHANGED <<verifyVars, handlerVars, calls>>

\* return certmaker.CreateCertificates(km, config, ...): the signing calls happen
\* in there, and its error is the run's.
CreateCertificates ==
    /\ maker # Nil /\ Val(maker).pc = "CreateCertificates"
    /\ LET m == Val(maker) IN
         maker' = Some([m EXCEPT !.pc = "done", !.createCalls = @ + 1,
                                 !.err = IF m.flags.createFails
                                         THEN ErrCreateCertificates ELSE NoErr])
    /\ UNCHANGED <<verifyVars, handlerVars, calls>>

runCreate ==
    \/ CreateConfig
    \/ CreateInitKMS
    \/ CreateValidateRoot
    \/ CreateValidateLeaf
    \/ CreateValidateIntermediate
    \/ CreateCertificates

SpecCreate == CreateInit /\ [][runCreate]_vars

\* ------------------------------------------------------------- the server
\* The server runs every invocation of a handler in a goroutine of its own: the
\* locals of an invocation are its own, `api` is the one thing they all see.
NewCall(kind, p) ==
    [kind |-> kind, params |-> p,
     hpc |-> IF kind = "timestamp" THEN "ReadAll" ELSE "GetTimestampCertChain",
     req |-> Nil, tsStruct |-> Nil, resp |-> Nil, httpStatus |-> 0, signCalls |-> 0]

CallFinished(c) == c.hpc \in {"responded", "panicked"}

CallRespond(c, code) == [c EXCEPT !.hpc = "responded", !.httpStatus = code]

\* One step of TimestampResponseHandler on the locals `c`, reading the
\* process-wide values `a`: the calls it may go on with.
TimestampStep(a, c) ==
    CASE c.hpc = "ReadAll" ->
           {IF Val(c.params).body.readErr THEN CallRespond(c, 400)
            ELSE [c EXCEPT !.hpc = "parse"]}
      [] c.hpc = "parse" ->
           LET val == Val(c.params).contentType
               r == IF val = "application/json"
                    THEN ParseRequest("json", Val(c.params).body)
                    ELSE IF val = "application/timestamp-query"
                         THEN ParseRequest("asn1", Val(c.params).body)
                         ELSE [req |-> Nil, err |-> NoErr]
           IN {IF r.err # NoErr THEN CallRespond([c EXCEPT !.req = r.req], 400)
               ELSE [c EXCEPT !.req = r.req, !.hpc = "VerifyRequest"]}
      [] c.hpc = "VerifyRequest" ->
           {IF e = Panic THEN [c EXCEPT !.hpc = "panicked"]
            ELSE IF e # NoErr THEN CallRespond(c, 400)
                 ELSE [c EXCEPT !.hpc = "CreateResponse"] : e \in VerifyRequestOutcomes(c.req)}
      [] c.hpc = "CreateResponse" ->
           {IF c.req = Nil THEN [c EXCEPT !.hpc = "panicked"]
            ELSE [c EXCEPT !.tsStruct = Some(TimestampStruct(Val(c.req))),
                           !.signCalls = @ + 1, !.hpc = "signing"]}
      [] c.hpc = "signing" ->
           {IF Val(c.params).signerFails THEN CallRespond(c, 500)
            ELSE CallRespond(
                     [c EXCEPT !.resp =
                          Some(CreateResponse(Val(c.tsStruct), a.certChain[1], a.tsaSigner,
                                              MarshalFunc(ContentType(
                                                  Val(c.params).contentType))))],
                     201)}
      [] OTHER -> {}

\* The requests the clients send side by side.
CallRequests ==
    {Request("SHA256", Digest("SHA256", ArtifactA), Some(1), PolicyA, TRUE),
     Request("SHA512", Digest("SHA512", ArtifactB), Nil, <<>>, FALSE),
     Request("SHA1", Digest("SHA1", ArtifactA), Some(0), <<>>, TRUE)}

CallStarts ==
    {NewCall("certchain", Nil)}
    \cup {NewCall("timestamp",
                  Some([contentType |-> contentType,
                        body |-> [readErr |-> FALSE, format |-> "asn1", wellFormed |-> TRUE,
                                  request |-> r],
                        signerFails |-> signerFails])) :
             contentType \in {"application/json", "application/timestamp-query",
                              "text/plain"},
             r \in CallRequests, signerFails \in BOOLEAN}

ServerInit ==
    /\ VerifyIdle
    /\ HandlerIdle
    /\ maker = Nil
    /\ calls \in [1..MaxCalls -> CallStarts]

\* Invocation i of TimestampResponseHandler takes its next step.
ServeTimestampResponse(i) ==
    /\ calls[i].kind = "timestamp"
    /\ \E n \in TimestampStep(api, calls[i]) : calls' = [calls EXCEPT ![i] = n]
    /\ UNCHANGED <<verifyVars, handlerVars, maker>>

\* A handler that hands out the PEM chain once and clears it.
GetTimestampCertChainHandler_Consumes(i) ==
    /\ calls[i].hpc = "GetTimestampCertChain"
    /\ calls' = [calls EXCEPT ![i] = CallRespond([@ EXCEPT !.resp = Some(api.certChainPem)],
                                                200)]
    /\ api' = [api EXCEPT !.certChainPem = ""]
    /\ UNCHANGED <<verifyVars, params, hpc, req, tsStruct, resp, httpStatus, signCalls, maker>>

\* return ts.NewGetTimestampCertChainOK().WithPayload(api.certChainPem)
GetTimestampCertChainHandler(i) ==
    /\ calls[i].hpc = "GetTimestampCertChain"
    /\ calls' = [calls EXCEPT ![i] = CallRespond([@ EXCEPT !.resp = Some(api.certChainPem)],
                                                200)]
    /\ UNCHANGED <<verifyVars, handlerVars, maker>>

ServerNext ==
    \/ \E i \in DOMAIN calls : ServeTimestampResponse(i)
    \/ \E i \in DOMAIN calls : GetTimestampCertChainHandler(i)

SpecServer == ServerInit /\ [][ServerNext]_vars

\* -------------------------------------------------------------- observation
CheckOrder ==
    <<"verifyTSRWithChain", "verifyNonce", "verifyOID", "verifyLeafAndIntermediatesEKU",
      "verifyLeafCert", "verifyHashedMessages">>

Ran(check) == \E i \in 1..Len(ran) : ran[i] = check

\* What the check returned: the error VerifyTimestampResponse ended with when the
\* check was the last one run, no error when the run went on past it.
Outcome(check) == IF pc = "done" /\ ran[Len(ran)] = check THEN err ELSE NoErr

ResponseLeaf == Val(ts).Certificates[1]

AllAbsent == opts.Nonce = Nil /\ opts.Oid = Nil /\ opts.TsaCertificate = Nil

\* ------------------------------------------------------------------ claims

\* C1: when an expected leaf certificate is supplied and the response's leaf differs
\* from it in issuer, in serial number or as a whole, verification returns a
\* leaf-certificate-mismatch error.  (Stated as claimed; the code returns nil.)
C1_LeafMismatchRejected ==
    (/\ Ran("verifyLeafCert")
     /\ opts.TsaCertificate # Nil
     /\ \/ Val(opts.TsaCertificate).RawIssuer # ResponseLeaf.RawIssuer
        \/ Val(opts.TsaCertificate).SerialNumber # ResponseLeaf.SerialNumber
        \/ Val(opts.TsaCertificate) # ResponseLeaf)
    => (pc = "done" /\ err = ErrLeafCert)

\* The errors a check may return.
ErrorsOf(check) ==
    CASE check = "verifyTSRWithChain" -> {ErrParseToken, ErrChain}
      [] check = "verifyNonce" -> {ErrNonce}
      [] check = "verifyOID" -> {ErrOIDLength, ErrOIDContent}
      [] check = "verifyLeafAndIntermediatesEKU" -> {ErrEKULeaf, ErrEKUIntermediate}
      [] check = "verifyLeafCert" -> {ErrLeafCert}
      [] check = "verifyHashedMessages" -> {ErrReadArtifact, ErrHash}

\* C2: the checks run in the fixed order; the run stops at the first failing check
\* and returns that check's error; nothing runs after a failure (the artifact is
\* read only by the sixth check); success is returned only after all six passed.
\* (Stated as claimed; a check that panics returns no error at all.)
C2_StopsAtFirstFailure ==
    /\ ran = SubSeq(CheckOrder, 1, Len(ran))
    /\ artifactRead => Len(ran) = 6
    /\ (pc = "done" /\ ts # Nil) =>
          /\ Len(ran) >= 1
          /\ err = NoErr => Len(ran) = 6
          /\ err # NoErr => err \in ErrorsOf(ran[Len(ran)])
    /\ (pc # "done" /\ ts # Nil) => (err = NoErr /\ pc = CheckOrder[Len(ran) + 1])

\* A path from the signer's certificate to one of opts.Roots, through opts.Intermediates.
PathToRoots(t, o) ==
    /\ SignerCerts(t) # {}
    /\ LET ee == t.Certificates[CHOOSE i \in SignerCerts(t) : TRUE]
           roots == {Val(o.Roots)[i] : i \in 1..Len(Val(o.Roots))}
       IN PathToPool(ee, IF o.Intermediates = Nil THEN <<>> ELSE Val(o.Intermediates), roots)

\* C3: the trust anchors are opts.Roots: with no path from the signer to one of
\* opts.Roots the signature check fails with the untrusted-chain error.
\* (Stated as claimed; the code trusts the certPool argument and never reads opts.Roots.)
C3_RootsOptionDecidesTrust ==
    (Ran("verifyTSRWithChain") /\ opts.Roots # Nil /\ ~PathToRoots(Val(ts), opts))
    => (pc = "done" /\ err = ErrChain)

\* C4: the hash check succeeds exactly when the whole artifact was read and its
\* digest under the response's algorithm is byte-equal to the response's hashed
\* message; an artifact with another digest yields the hash-mismatch error.
C4_HashEquality ==
    Ran("verifyHashedMessages") =>
        LET same == Digest(Val(ts).HashAlgorithm, artifact.data) = Val(ts).HashedMessage IN
        /\ pc = "done"
        /\ err = NoErr <=> (~artifact.readErr /\ same)
        /\ (~artifact.readErr /\ ~same) => err = ErrHash

\* C4 witness: the hash check rejected an artifact that differs in one byte from
\* the artifact the response was created for.
C4_Witness ==
    /\ Ran("verifyHashedMessages") /\ err = ErrHash
    /\ \E d \in Artifacts :
          /\ Digest(Val(ts).HashAlgorithm, d) = Val(ts).HashedMessage
          /\ Len(d) = Len(artifact.data)
          /\ Cardinality({i \in 1..Len(d) : d[i] # artifact.data[i]}) = 1

\* C5: with opts.Nonce present the nonce check returns the nonce-mismatch error
\* for every response whose nonce is not equal to it, a response without nonce
\* included, and passes when they are equal.
\* (Stated as claimed; on a response without nonce the code panics.)
C5_NonceBinding ==
    (Ran("verifyNonce") /\ opts.Nonce # Nil) =>
        IF Val(ts).Nonce = opts.Nonce THEN Outcome("verifyNonce") = NoErr
        ELSE pc = "done" /\ err = ErrNonce

\* C6: with opts.Oid present the policy check passes exactly when the response's
\* policy has the same length as opts.Oid and the same value at every position.
C6_OIDBinding ==
    (Ran("verifyOID") /\ opts.Oid # Nil) =>
        LET policy == Val(ts).Policy
            expected == Val(opts.Oid) IN
        /\ Outcome("verifyOID") = NoErr <=>
              /\ Len(policy) = Len(expected)
              /\ \A i \in 1..Len(policy) : policy[i] = expected[i]
        /\ Outcome("verifyOID") # NoErr => Outcome("verifyOID") \in ErrorsOf("verifyOID")

\* C6 witness: a response with policy 1.3.6.1.4.1.57264.2 was rejected against 1.2.3.
C6_Witness ==
    /\ Ran("verifyOID") /\ pc = "done" /\ err = ErrOIDLength
    /\ Val(ts).Policy = DefaultPolicyOID /\ opts.Oid = Some(<<1, 2, 3>>)

OnlyTimeStamping(cert) == cert.ExtKeyUsage = <<ExtKeyUsageTimeStamping>>

\* C7: with an expected leaf and an intermediate list supplied the EKU check passes
\* exactly when the leaf and every intermediate carry the single extended key
\* usage time stamping.
C7_EKUChaining ==
    (Ran("verifyLeafAndIntermediatesEKU") /\ opts.TsaCertificate # Nil
        /\ opts.Intermediates # Nil) =>
        LET out == Outcome("verifyLeafAndIntermediatesEKU") IN
        /\ out = NoErr <=>
              /\ OnlyTimeStamping(Val(opts.TsaCertificate))
              /\ \A i \in 1..Len(Val(opts.Intermediates)) :
                    OnlyTimeStamping(Val(opts.Intermediates)[i])
        /\ out # NoErr => out \in ErrorsOf("verifyLeafAndIntermediatesEKU")

\* C7 witness: the EKU check failed on the last intermediate alone, which carries
\* time stamping together with a second usage.
C7_Witness ==
    /\ Ran("verifyLeafAndIntermediatesEKU") /\ pc = "done" /\ err = ErrEKUIntermediate
    /\ opts.Intermediates # Nil /\ Len(Val(opts.Intermediates)) = 2
    /\ OnlyTimeStamping(Val(opts.Intermediates)[1])
    /\ Len(Val(opts.Intermediates)[2].ExtKeyUsage) = 2

\* C8: with an expected leaf and opts.Subject supplied, the subject check fails
\* exactly when the response leaf's subject string differs from opts.Subject.
\* (Stated as claimed; the code compares with the expected certificate's subject
\* and never reads opts.Subject.)
C8_SubjectOptionDecides ==
    (Ran("verifyLeafCert") /\ opts.TsaCertificate # Nil /\ opts.Subject # "") =>
        (verifyLeafCertSubject(NameString(ResponseLeaf.Subject), opts) # NoErr
            <=> NameString(ResponseLeaf.Subject) # opts.Subject)

\* C9: a check whose expectation is absent returns success; with nonce, policy and
\* expected leaf all absent the result is the signature check's error, or else what
\* the hash check returns; an empty nonce or oid flag gives an absent expectation.
C9_AbsentNeverRejects ==
    /\ (Ran("verifyNonce") /\ opts.Nonce = Nil) => Outcome("verifyNonce") = NoErr
    /\ (Ran("verifyOID") /\ opts.Oid = Nil) => Outcome("verifyOID") = NoErr
    /\ (Ran("verifyLeafAndIntermediatesEKU") /\ opts.TsaCertificate = Nil)
          => Outcome("verifyLeafAndIntermediatesEKU") = NoErr
    /\ (Ran("verifyLeafCert") /\ opts.TsaCertificate = Nil) => Outcome("verifyLeafCert") = NoErr
    /\ (pc = "done" /\ ts # Nil /\ AllAbsent) =>
          err = IF verifyTSRWithChain(Val(ts), certPool) # NoErr
                THEN verifyTSRWithChain(Val(ts), certPool)
                ELSE verifyHashedMessages(Val(ts).HashAlgorithm, Val(ts).HashedMessage, artifact)
    /\ (flags # Nil /\ pc = "VerifyTimestampResponse") =>
          /\ Val(flags).nonce = <<>> => opts.Nonce = Nil
          /\ Val(flags).oid = <<>> => opts.OID = Nil

\* C9 witness: a response carrying a nonce and a policy verified with every
\* expectation absent, all six checks having run.
C9_Witness ==
    /\ pc = "done" /\ err = NoErr /\ Len(ran) = 6 /\ AllAbsent
    /\ Val(ts).Nonce # Nil /\ Val(ts).Policy # <<>>

\* C10: the response the handler creates for a valid request with certificates
\* embedded passes VerifyTimestampResponse against the issuing chain, the original
\* artifact, the request's nonce and the response's policy.
\* (Stated as claimed; a response to an application/json request is serialised
\* with json.Marshal and does not parse.)
C10_RoundTrip ==
    (pc = "done" /\ httpStatus = 201 /\ Val(req).Certificates) => err = NoErr

\* The body does not decode in the format the declared Content-Type selects.
DecodeFails ==
    /\ Val(params).contentType \in {"application/json", "application/timestamp-query"}
    /\ ~ /\ Val(params).body.wellFormed
         /\ Val(params).body.format =
                IF Val(params).contentType = "application/json" THEN "json" ELSE "asn1"

\* The decoded request is refused by VerifyRequest.
ValidationFails == req # Nil /\ VerifyRequest(req) # NoErr

\* C11: in a run of TimestampResponseHandler the signing capability is invoked at
\* most once, and only after the body was read, decoded and accepted by
\* VerifyRequest; a request that fails decoding or validation (SHA-1, say) is
\* answered with 400 and never signed; a signing failure is answered with 500.
C11_SignsOnceAfterValidation ==
    /\ signCalls <= 1
    /\ signCalls = 1 => /\ ~Val(params).body.readErr
                        /\ ~DecodeFails
                        /\ req = Some(Val(params).body.request)
                        /\ Val(req).HashAlgorithm # "SHA1"
                        /\ ~ValidationFails
    /\ (DecodeFails /\ hpc \notin {"ReadAll", "parse"})
           => (hpc = "responded" /\ httpStatus = 400 /\ signCalls = 0)
    /\ (ValidationFails /\ hpc # "VerifyRequest")
           => (hpc = "responded" /\ httpStatus = 400 /\ signCalls = 0)
    /\ (signCalls = 1 /\ Val(params).signerFails /\ hpc # "signing")
           => (hpc = "responded" /\ httpStatus = 500 /\ resp = Nil)
    /\ hpc = "signing" => (signCalls = 1 /\ httpStatus = 0 /\ resp = Nil)

C11_Witness ==
    /\ hpc = "responded" /\ httpStatus = 500 /\ signCalls = 1
    /\ Val(req).HashAlgorithm = "SHA256"

\* The templates a create run has to validate.
RequiredTemplates(f) ==
    {RootTemplate, LeafTemplate}
    \cup (IF f.intermediateKeyID # "" THEN {IntermediateTemplate} ELSE {})

\* C12: in a create run the root template, the leaf template and, when an
\* intermediate key id is configured, the intermediate template are validated
\* before CreateCertificates is called; when one of these validations fails the
\* run returns a template error and CreateCertificates is never called.
C12_TemplatesValidatedFirst ==
    maker # Nil =>
        LET m == Val(maker) IN
            /\ m.createCalls > 0 =>
                   /\ RequiredTemplates(m.flags) \subseteq m.validated
                   /\ RequiredTemplates(m.flags) \subseteq m.flags.validTemplates
            /\ (\E t \in m.validated : t \notin m.flags.validTemplates) =>
                   /\ m.pc = "done"
                   /\ m.err \in {ErrRootTemplate, ErrLeafTemplate, ErrIntermediateTemplate}
                   /\ m.createCalls = 0

C12_Witness ==
    /\ maker # Nil
    /\ Val(maker).pc = "done"
    /\ Val(maker).err = ErrIntermediateTemplate
    /\ Val(maker).validated = TemplatePaths
    /\ Val(maker).createCalls = 0

\* C13: the timestamp structure the handler builds is a function of the validated
\* request: hash algorithm, hashed message, nonce, certificate-embedding flag and
\* extensions are the request's, unchanged; ordering and qualified are false; the
\* policy is the request's when it names one, and 1.3.6.1.4.1.57264.2 otherwise.
C13_TimestampFromRequest ==
    tsStruct # Nil =>
        LET t == Val(tsStruct)
            r == Val(params).body.request
        IN /\ req = Some(r)
           /\ t.HashAlgorithm = r.HashAlgorithm
           /\ t.HashedMessage = r.HashedMessage
           /\ t.Nonce = r.Nonce
           /\ t.AddTSACertificate = r.Certificates
           /\ t.ExtraExtensions = r.Extensions
           /\ t.Ordering = FALSE
           /\ t.Qualified = FALSE
           /\ t.Policy = IF r.TSAPolicyOID = <<>> THEN <<1, 3, 6, 1, 4, 1, 57264, 2>>
                         ELSE r.TSAPolicyOID

C13_Witness ==
    /\ tsStruct # Nil
    /\ Val(req).TSAPolicyOID = PolicyA
    /\ Val(tsStruct).Policy = PolicyA
    /\ Val(tsStruct).Nonce = Some(1)
    /\ Val(tsStruct).ExtraExtensions = <<"ext">>
    /\ Val(tsStruct).AddTSACertificate

\* C15: for a request whose Content-Type is neither application/json nor
\* application/timestamp-query the handler decodes nothing (the request stays
\* absent), never invokes the signing capability and never returns a created
\* timestamp response.
C15_UnsupportedContentType ==
    Val(params).contentType \notin {"application/json", "application/timestamp-query"}
        => /\ req = Nil
           /\ signCalls = 0
           /\ httpStatus # 201
           /\ resp = Nil

C15_Witness ==
    /\ Val(params).contentType = "text/plain"
    /\ ~Val(params).body.readErr
    /\ hpc \in {"panicked", "responded"}
    /\ req = Nil

\* What an invocation started as `c` may end as when it is the only one running
\* and reads the startup values.
RECURSIVE Alone(_)
Alone(c) ==
    IF CallFinished(c) THEN {c}
    ELSE IF c.kind = "certchain"
         THEN {CallRespond([c EXCEPT !.resp = Some(StartupAPI.certChainPem)], 200)}
         ELSE UNION {Alone(n) : n \in TimestampStep(StartupAPI, c)}

\* C14: under any interleaving of invocations of TimestampResponseHandler and
\* GetTimestampCertChainHandler no handler writes the signing identity, the
\* certificate chain or the PEM chain, which stay at their startup values; the
\* response of an invocation depends on its own request and on those values only,
\* not on the other requests in flight.
C14_HandlersShareNothingWritten ==
    /\ api = StartupAPI
    /\ \A i \in DOMAIN calls :
          /\ calls[i].signCalls <= 1
          /\ CallFinished(calls[i]) =>
                 calls[i] \in Alone(NewCall(calls[i].kind, calls[i].params))

C14_Witness ==
    \E i, j \in DOMAIN calls :
        /\ calls[i].kind = "timestamp" /\ calls[i].httpStatus = 201
        /\ calls[j].kind = "certchain" /\ calls[j].httpStatus = 200
        /\ calls[j].resp = Some(StartupAPI.certChainPem)

====
